---- MODULE Spec2Model ----
(***************************************************************************)
(* One settlement attempt of the OVault send scripts: scripts 1-11 of      *)
(* scripts/ (script 2 and the mainnet variant of script 7 included).       *)
(* Every script is a straight-line async main(); each awaited network call *)
(* is one step of the state machine and may succeed or throw.              *)
(***************************************************************************)
EXTENDS Integers, Sequences, FiniteSets, TLC

(***************************************************************************)
(* ethers.BigNumber: arbitrary-precision non-negative integers, kept as    *)
(* little-endian sequences of base-10000 limbs without leading zero limbs  *)
(* (<<>> is 0), so that 18-decimals amounts and wei values keep their full *)
(* width.                                                                  *)
(***************************************************************************)
Base == 10000

RECURSIVE BNnorm(_)
BNnorm(a) ==
    IF a = <<>> THEN <<>>
    ELSE IF a[Len(a)] = 0 THEN BNnorm(SubSeq(a, 1, Len(a) - 1))
    ELSE a

RECURSIVE BNfrom(_)
BNfrom(n) == IF n = 0 THEN <<>> ELSE <<n % Base>> \o BNfrom(n \div Base)

RECURSIVE BNaddC(_, _, _)
BNaddC(a, b, carry) ==
    IF a = <<>> /\ b = <<>>
    THEN (IF carry = 0 THEN <<>> ELSE <<carry>>)
    ELSE LET x == IF a = <<>> THEN 0 ELSE Head(a)
             y == IF b = <<>> THEN 0 ELSE Head(b)
             t == x + y + carry
         IN  <<t % Base>> \o BNaddC(IF a = <<>> THEN <<>> ELSE Tail(a),
                                    IF b = <<>> THEN <<>> ELSE Tail(b),
                                    t \div Base)

BNadd(a, b) == BNnorm(BNaddC(a, b, 0))

RECURSIVE BNmulC(_, _, _)
BNmulC(a, m, carry) ==
    IF a = <<>>
    THEN BNfrom(carry)
    ELSE LET t == Head(a) * m + carry
         IN  <<t % Base>> \o BNmulC(Tail(a), m, t \div Base)

\* a.mul(m) for a small multiplier m (0 <= m <= 10000)
BNmul(a, m) == BNnorm(BNmulC(a, m, 0))

RECURSIVE BNdivR(_, _, _)
BNdivR(a, d, rem) ==
    IF a = <<>> THEN <<>>
    ELSE LET t == rem * Base + a[Len(a)]
         IN  BNdivR(SubSeq(a, 1, Len(a) - 1), d, t % d) \o <<t \div d>>

\* a.div(d): floor division by a small divisor d (1 <= d <= 10000)
BNdiv(a, d) == BNnorm(BNdivR(a, d, 0))

RECURSIVE BNltR(_, _, _)
BNltR(a, b, i) ==
    IF i = 0 THEN FALSE
    ELSE IF a[i] # b[i] THEN a[i] < b[i]
    ELSE BNltR(a, b, i - 1)

\* a.lt(b)
BNlt(a, b) ==
    IF Len(a) # Len(b) THEN Len(a) < Len(b) ELSE BNltR(a, b, Len(a))

BNlte(a, b) == ~BNlt(b, a)

RECURSIVE BNpow10(_, _)
BNpow10(a, k) == IF k = 0 THEN a ELSE BNpow10(BNmul(a, 10), k - 1)

(***************************************************************************)
(* Decimal strings (CONFIG amounts, Number.prototype.toString results):    *)
(* an integer part and the digits after the point.                         *)
(***************************************************************************)
RECURSIVE trimZeros(_)
trimZeros(f) ==
    IF f = <<>> THEN <<>>
    ELSE IF f[Len(f)] = 0 THEN trimZeros(SubSeq(f, 1, Len(f) - 1))
    ELSE f

RECURSIVE BNdigits(_, _)
BNdigits(acc, f) ==
    IF f = <<>> THEN acc
    ELSE BNdigits(BNadd(BNmul(acc, 10), BNfrom(Head(f))), Tail(f))

\* ethers.utils.parseUnits(value, decimals): throws "fractional component
\* exceeds decimals" when more digits than decimals remain after trimming.
parseUnits(value, decimals) ==
    LET f == trimZeros(value.frac)
    IN  IF Len(f) > decimals
        THEN [ok |-> FALSE, v |-> <<>>]
        ELSE [ok |-> TRUE,
              v  |-> BNpow10(BNdigits(BNfrom(value.int), f), decimals - Len(f))]

Str0    == [int |-> 0, frac |-> <<>>]          \* '0'
Str1    == [int |-> 1, frac |-> <<0>>]         \* '1.0'
Str003  == [int |-> 0, frac |-> <<0, 3>>]      \* '0.03'
Str2    == [int |-> 2, frac |-> <<0>>]         \* '2.0'

\* (parseFloat(amount) * (1 - slippageBps / 10000)).toString() with
\* slippageBps = 50, as IEEE-754 doubles give it for the amounts above:
\* 0 * 0.995 = 0, 1 * 0.995 = 0.995, 0.03 * 0.995 = 0.029849999999999998.
floatSlippageString(amount) ==
    CASE amount = Str0   -> [int |-> 0, frac |-> <<>>]
      [] amount = Str1   -> [int |-> 0, frac |-> <<9, 9, 5>>]
      [] amount = Str003 -> [int |-> 0,
                             frac |-> <<0,2,9,8,4,9,9,9,9,9,9,9,9,9,9,9,9,8>>]

\* a negative BigNumber: sign and magnitude (there is no negative zero)
BNneg(a) == IF a = <<>> THEN <<>> ELSE [negative |-> a]

\* a slippage calculation that rounds the minimum up
calculateMinAmountCeil(amount, slippageBps) ==
    BNdiv(BNadd(BNmul(amount, 10000 - slippageBps), <<9999>>), 10000)

\* calculateMinAmount(amount, slippageBps): amount.mul(10000 -
\* slippageBps).div(10000); above 10000 bps the factor is negative and div
\* truncates toward zero
calculateMinAmount(amount, slippageBps) ==
    IF slippageBps <= 10000
    THEN BNdiv(BNmul(amount, 10000 - slippageBps), 10000)
    ELSE BNneg(BNdiv(BNmul(amount, slippageBps - 10000), 10000))

SlippageBps == 50

\* ethers.constants.MaxUint256 = 2^256 - 1
MaxUint256 ==
    <<9935, 2963, 9131, 4007, 5758, 394, 564, 6564, 9846, 3269,
      785, 6879, 5008, 7098, 4235, 6195, 3731, 892, 5792, 11>>

\* Number.MAX_SAFE_INTEGER = 2^53 - 1: BigNumber.toNumber() throws above it
MaxSafeInteger == <<991, 5474, 1992, 9007>>

\* '25000000000000000' wei (0.025 ETH), the fallback of the second-hop quote
DefaultLzComposeValue == <<0, 0, 0, 5000, 2>>

(***************************************************************************)
(* Bounds of the model.                                                    *)
(***************************************************************************)
\* quoteSend returns one of the native fees QuoteOf(0) .. QuoteOf(MaxFee)
MaxFee == 1
\* previewDeposit / previewRedeem return the input less 0 .. MaxRateDrop tenths
MaxRateDrop == 1

\* (7 wei, then 0.01 ETH and a few wei for each step of i)
QuoteOf(i) == BNnorm(<<7 + i, 0, 0, 0, i>>)
Quotes == { QuoteOf(i) : i \in 0..MaxFee }
\* the MessagingFee tuples a quoteSend returns: the native fee and the
\* lzToken fee, zero with the lowest quote and not zero with the others
MessagingFees ==
    { [nativeFee |-> QuoteOf(i), lzTokenFee |-> BNfrom(i)] : i \in 0..MaxFee }
Previews(amount) == { BNdiv(BNmul(amount, 10 - i), 10) : i \in 0..MaxRateDrop }

(***************************************************************************)
(* CONFIG of each script.                                                  *)
(***************************************************************************)
Scripts == {"s1", "s2", "s3", "s4", "s5", "s6", "s7", "s7b", "s8", "s9", "s10", "s11"}

\* scripts whose submitted hop lands on the OVault composer with a composeMsg
ComposeScripts == {"s1", "s2", "s7", "s7b", "s8", "s11"}
\* scripts that make the vault deposit / redeem / depositAndSend call themselves
LocalVaultScripts == {"s3", "s4", "s10"}

Conversion(script) ==
    CASE script \in {"s1", "s3", "s7", "s7b", "s10", "s11"} -> "deposit"
      [] script \in {"s2", "s4", "s8"}                      -> "redeem"
      [] OTHER                                               -> "none"

\* CONFIG.chains of scripts 1-8: arbitrumSepolia, optimismSepolia, baseSepolia
TestnetEids == {40231, 40232, 40245}

Undefined == [set |-> FALSE, v |-> Str0]
Given(v) == [set |-> TRUE, v |-> v]

Wallet    == "wallet"
Recipient == "recipient"
Composer  == "composer"
\* a private key and a contract address the user has filled in
PrivateKey == "key"
Contract   == "contract"

\* the value CONFIG ships for the private key
shippedPrivateKey(script) ==
    IF script \in {"s9", "s10", "s11"}
    THEN "<YOUR_PRIVATE_KEY_HERE>" ELSE "YOUR_PRIVATE_KEY_HERE"

\* the value CONFIG ships for the recipient address
shippedRecipient(script) ==
    CASE script \in {"s9", "s10", "s11"} -> "<YOUR_RECIPIENT_ADDRESS_HERE>"
      [] script = "s7b"                  -> "RECIPIENT_ADDRESS_HERE"
      [] OTHER                           -> "0xYourRecipientAddressHere"

\* the value CONFIG ships for the contract address the validation looks at;
\* scripts 9-11 and the mainnet variant of script 7 ship deployed addresses
shippedContract(script) ==
    CASE script \in {"s1", "s2", "s7", "s8"} -> "0xYourOVaultComposerAddress"
      [] script \in {"s3", "s4"}             -> "0xYourVaultAddress"
      [] script = "s5"                       -> "0xYourAssetOFTOnHubAddress"
      [] script = "s6"                       -> "0xYourShareOFTOnHubAddress"
      [] OTHER                               -> Contract

Amounts == {Str0, Str1, Str003}
MinAmounts == {Undefined, Given(Str2)}
\* CONFIG.transaction.lzComposeValue: undefined or a wei string ('1000')
LzComposeValues == {[set |-> FALSE, v |-> <<>>], [set |-> TRUE, v |-> <<1000>>]}

Chains(script) ==
    CASE script \in {"s1", "s2"} ->
            { [src |-> s, hub |-> 40231, dst |-> d] : s \in TestnetEids, d \in TestnetEids }
      [] script \in {"s3", "s4"} ->
            { [src |-> 40231, hub |-> 40231, dst |-> 40231] }
      [] script \in {"s5", "s6"} ->
            { [src |-> 40231, hub |-> 40231, dst |-> d] : d \in TestnetEids }
      [] script \in {"s7", "s8"} ->
            { [src |-> s, hub |-> 40231, dst |-> 40231] : s \in TestnetEids }
      [] script = "s7b" ->
            { [src |-> s, hub |-> 30375, dst |-> 30375] : s \in {30102, 30375} }
      [] script = "s9"  -> { [src |-> 30184, hub |-> 30101, dst |-> 30101] }
      [] script = "s10" -> { [src |-> 30101, hub |-> 30101, dst |-> 30375] }
      [] script = "s11" -> { [src |-> 30184, hub |-> 30101, dst |-> 30375] }

Configs ==
    { [script |-> sc, srcEid |-> ch.src, hubEid |-> ch.hub, dstEid |-> ch.dst,
       amount |-> a, minAmount |-> m, lzComposeValue |-> v,
       privateKey |-> pk, recipientAddress |-> r, contract |-> ct] :
        sc \in Scripts, ch \in UNION { Chains(k) : k \in Scripts },
        a \in Amounts, m \in MinAmounts, v \in LzComposeValues,
        pk \in {PrivateKey} \cup { shippedPrivateKey(x) : x \in Scripts },
        r \in {Recipient} \cup { shippedRecipient(x) : x \in Scripts },
        ct \in {Contract} \cup { shippedContract(x) : x \in Scripts } }

\* the fields each script's CONFIG really has
ValidConfig(c) ==
    /\ [src |-> c.srcEid, hub |-> c.hubEid, dst |-> c.dstEid] \in Chains(c.script)
    /\ (c.script \in {"s9", "s10", "s11"} => ~c.minAmount.set)
    /\ (c.script \notin {"s1", "s2"} => ~c.lzComposeValue.set)
    /\ c.privateKey \in {PrivateKey, shippedPrivateKey(c.script)}
    /\ c.recipientAddress \in {Recipient, shippedRecipient(c.script)}
    /\ c.contract \in {Contract, shippedContract(c.script)}

(***************************************************************************)
(* SendParam, options and the compose message.                             *)
(***************************************************************************)
Bytes0x == [hex |-> "0x"]
NoHop == [none |-> TRUE]
NoFee == [none |-> TRUE]

\* addressToBytes32: the 20-byte address left-padded with 12 zero bytes
addressToBytes32(a) == <<"000000000000000000000000", a>>

\* addressToBytes32 throws 'Invalid address' for a string that is no address
\* (the shipped placeholders are none)
invalidAddress(a) == a \notin {Wallet, Recipient, Composer}

\* Options.newOptions().addExecutorLzReceiveOption(gas, value).toHex()
lzReceiveOption(gas, value) == [type |-> "lzReceive", gas |-> gas, value |-> value]

\* Options.newOptions().addExecutorComposeOption(index, gas, value).toHex()
\* (scripts 1, 2 and 7 spell it addExecutorLzComposeOption; it is taken to
\* build the same executor compose option)
lzComposeOption(index, gas, value) ==
    [type |-> "lzCompose", index |-> index, gas |-> gas, value |-> value]

SendParam(dstEid, to, amountLD, minAmountLD, extraOptions, composeMsg) ==
    [dstEid |-> dstEid, to |-> to, amountLD |-> amountLD,
     minAmountLD |-> minAmountLD, extraOptions |-> extraOptions,
     composeMsg |-> composeMsg, oftCmd |-> Bytes0x]

\* defaultAbiCoder.encode(['tuple(uint32,bytes32,uint256,uint256,bytes,bytes,
\* bytes)', 'uint256'], [[...secondHopSendParam], lzComposeValue])
abiEncodeCompose(hop, msgValue) ==
    [hex |-> "abi",
     tuple |-> <<hop.dstEid, hop.to, hop.amountLD, hop.minAmountLD,
                 hop.extraOptions, hop.composeMsg, hop.oftCmd>>,
     msgValue |-> msgValue]

lzComposeGas(script) ==
    CASE script \in {"s1", "s2"}        -> 395000
      [] script \in {"s7", "s7b", "s8"} -> 175000
      [] script = "s11"                 -> 1000000

\* result of a synchronous stretch of main(): the locals, the next await,
\* or the error thrown
Ok(l, next) == [ok |-> TRUE, l |-> l, pc |-> next, err |-> ""]
Thrown(l, err) == [ok |-> FALSE, l |-> l, pc |-> "exit", err |-> err]

\* a minimum that takes 50 bps off an explicit minAmount too
minAmountOutSlipped(c, l) ==
    IF c.minAmount.set
    THEN [ok |-> parseUnits(c.minAmount.v, l.outDecimals).ok,
          v  |-> calculateMinAmount(parseUnits(c.minAmount.v, l.outDecimals).v,
                                    SlippageBps)]
    ELSE [ok |-> TRUE, v |-> calculateMinAmount(l.expectedOutputAmount, SlippageBps)]

\* "Calculate minAmount with slippage" of the conversion output
minAmountOut(c, l) ==
    IF c.minAmount.set
    THEN parseUnits(c.minAmount.v, l.outDecimals)
    ELSE [ok |-> TRUE, v |-> calculateMinAmount(l.expectedOutputAmount, SlippageBps)]

\* a second hop that forwards the input amount instead of the preview
secondHopOfInput(c, l, minOut) ==
    SendParam(IF c.script \in {"s7", "s7b", "s8"} THEN c.hubEid ELSE c.dstEid,
              addressToBytes32(c.recipientAddress),
              l.inputAmountUnits, minOut,
              lzReceiveOption(100000, <<>>), Bytes0x)

\* "Build second hop SendParam (hub -> destination)"
secondHopSendParam(c, l, minOut) ==
    SendParam(IF c.script \in {"s7", "s7b", "s8"} THEN c.hubEid ELSE c.dstEid,
              addressToBytes32(c.recipientAddress),
              l.expectedOutputAmount, minOut,
              lzReceiveOption(100000, <<>>), Bytes0x)

\* "Calculate first hop min amount with slippage"
firstHopMinAmount(c, l) ==
    IF c.script = "s11"
    THEN [ok |-> TRUE, v |-> calculateMinAmount(l.inputAmountUnits, SlippageBps)]
    ELSE parseUnits(IF c.minAmount.set THEN c.minAmount.v
                    ELSE floatSlippageString(c.amount),
                    l.inDecimals)

\* script 11 passes composeValue.toNumber() to the option builder
composeOptionFails(c, value) == c.script = "s11" /\ BNlt(MaxSafeInteger, value)

\* the await that follows the build of the first hop
afterFirstHop(script) == IF script \in {"s1", "s7", "s7b"} THEN "token" ELSE "quoteSend"

\* a second-hop value that ignores "if (dstChainConfig.eid ===
\* hubChainConfig.eid) lzComposeValue = '0'"
secondHopValueKept(c, l) == l.lzComposeValue

\* scripts 1 and 2: "Destination is hub - no second hop needed"
secondHopValue(c, l) ==
    IF c.script \in {"s1", "s2"} /\ c.dstEid = c.hubEid
    THEN <<>> ELSE l.lzComposeValue

\* a compose message that is left empty when the destination is the hub
composeMsgOnlyDownstream(c, l, value) ==
    IF c.dstEid = c.hubEid THEN Bytes0x
    ELSE abiEncodeCompose(l.secondHopSendParam, value)

\* "Encode composeMsg": always the encoded second hop and its value
composeMsgOf(c, l, value) == abiEncodeCompose(l.secondHopSendParam, value)

\* "Build options for first hop", "Build SendParam for first hop":
\* l.secondHopSendParam and l.lzComposeValue are set
buildFirstHop(c, l) ==
    LET value   == secondHopValue(c, l)
        compose == composeMsgOf(c, l, value)
        min     == firstHopMinAmount(c, l)
        l1      == [l EXCEPT !.lzComposeValue = value]
    IN  IF composeOptionFails(c, value) THEN Thrown(l1, "options")
        ELSE IF ~min.ok THEN Thrown(l1, "parseUnits")
        ELSE Ok([l1 EXCEPT !.sendParam =
                    SendParam(c.hubEid, addressToBytes32(Composer),
                              l.inputAmountUnits, min.v,
                              lzComposeOption(0, lzComposeGas(c.script), value),
                              compose)],
                afterFirstHop(c.script))

\* the one-hop SendParam of scripts 5, 6, 9 and 10
buildHop(c, l) ==
    LET min == CASE c.script \in {"s5", "s6"} ->
                      IF c.minAmount.set
                      THEN parseUnits(c.minAmount.v, l.inDecimals)
                      ELSE [ok |-> TRUE,
                            v |-> calculateMinAmount(l.inputAmountUnits, SlippageBps)]
                 [] c.script = "s9" ->
                      [ok |-> TRUE, v |-> BNdiv(BNmul(l.inputAmountUnits, 9950), 10000)]
                 [] c.script = "s10" ->
                      [ok |-> TRUE,
                       v |-> calculateMinAmount(l.expectedOutputAmount, SlippageBps)]
        amt == IF c.script = "s10" THEN l.expectedOutputAmount ELSE l.inputAmountUnits
        gas == IF c.script = "s9" THEN 50000 ELSE 100000
    IN  IF ~min.ok THEN Thrown(l, "parseUnits")
        ELSE IF invalidAddress(c.recipientAddress) THEN Thrown(l, "address")
        ELSE Ok([l EXCEPT !.minAmountOut = IF c.script = "s10" THEN min.v ELSE @,
                          !.sendParam =
                    SendParam(c.dstEid, addressToBytes32(c.recipientAddress),
                              amt, min.v, lzReceiveOption(gas, <<>>), Bytes0x)],
                "quoteSend")

(***************************************************************************)
(* State.                                                                  *)
(***************************************************************************)
VARIABLES
    cfg,        \* CONFIG of the script being run
    pc,         \* the await main() is suspended at ("start", ..., "exit")
    status,     \* "running", "ok" (process.exit(0)) or "failed" (process.exit(1))
    loc,        \* main()'s locals
    decimals,   \* decimals() of the token sent and of the token received
    allowance,  \* on-chain allowance of the wallet to the spender
    txs,        \* transactions submitted by the wallet, in order
    log         \* network calls made so far, with their outcome

vars == <<cfg, decimals, pc, status, loc, allowance, txs, log>>

Decimals == {2, 6}

\* scripts whose approval block is wrapped in try { ... } catch { }
TryApproval(script) == script \in {"s1", "s5", "s7", "s7b"}
ApprovalScripts == {"s1", "s3", "s5", "s7", "s7b", "s9", "s10", "s11"}

InitLoc ==
    [inDecimals |-> 0, outDecimals |-> 0,
     inputAmountUnits |-> <<>>, expectedOutputAmount |-> <<>>,
     previewed |-> FALSE, minAmountOut |-> <<>>,
     secondHopSendParam |-> NoHop, lzComposeValue |-> <<>>,
     innerQuote |-> "none", quoteFee |-> <<>>, sendParam |-> NoHop,
     isNativeToken |-> FALSE, msgFee |-> NoFee, txValue |-> <<>>,
     err |-> "", run |-> 1, out |-> <<>>, balance |-> <<>>,
     quotedParam |-> NoHop]

Init ==
    /\ cfg \in { c \in Configs : ValidConfig(c) }
    /\ pc = "start"
    /\ status = "running"
    /\ loc = InitLoc
    /\ decimals \in [input : Decimals, output : Decimals]
    /\ cfg.script \in {"s5", "s6", "s9", "s10", "s11"}
           => decimals.output = decimals.input
    /\ allowance \in (IF cfg.script \in ApprovalScripts
                      THEN {<<>>, MaxUint256} ELSE {<<>>})
    /\ txs = <<>>
    /\ log = <<>>

Call(name, ok) == [call |-> name, ok |-> ok]

\* a main() whose rejection is swallowed: it resolves whatever happened
GoResolves(r) ==
    /\ loc' = [r.l EXCEPT !.err = r.err]
    /\ pc' = r.pc
    /\ status' = IF r.ok THEN "running" ELSE "ok"

\* continue main() with the outcome r of a synchronous stretch
Go(r) ==
    IF r.ok
    THEN /\ loc' = r.l
         /\ pc' = r.pc
         /\ status' = "running"
    ELSE /\ loc' = [r.l EXCEPT !.err = r.err]
         /\ pc' = "exit"
         /\ status' = "failed"

\* an awaited call rejects outside any try block: main() rejects, exit(1)
Throw(err) == Go(Thrown(loc, err))

At(label) == status = "running" /\ pc = label

(***************************************************************************)
(* Synchronous stretches between awaits.                                   *)
(***************************************************************************)
\* "Check slippage" of scripts 3 and 4
checkSlippage(l) ==
    IF BNlt(l.expectedOutputAmount, l.minAmountOut)
    THEN Thrown(l, "slippage") ELSE Ok(l, "send")

\* after the decimals are read: parseUnits(CONFIG.transaction.amount, decimals)
afterDecimals(c, l) ==
    LET amt == parseUnits(c.amount, l.inDecimals)
        l1  == [l EXCEPT !.inputAmountUnits = amt.v]
    IN  IF ~amt.ok THEN Thrown(l, "parseUnits")
        ELSE CASE c.script \in {"s1", "s2", "s7", "s7b", "s8"} -> Ok(l1, "preview")
               [] c.script \in {"s3", "s4", "s9", "s10"}       -> Ok(l1, "balance")
               [] c.script = "s5"  -> Ok(l1, "approvalRequired")
               [] c.script = "s6"  -> buildHop(c, l1)

\* script 11 after vault.decimals(): min shares and the second hop
afterDecimals11(c, l) ==
    LET min == calculateMinAmount(l.expectedOutputAmount, SlippageBps)
    IN  IF invalidAddress(c.recipientAddress)
        THEN Thrown([l EXCEPT !.minAmountOut = min], "address")
        ELSE Ok([l EXCEPT !.minAmountOut = min,
                          !.secondHopSendParam = secondHopSendParam(c, l, min)],
                "quoteInner")

\* after the vault preview: minimum output, second hop, and either the
\* second-hop quote or the first hop
afterPreview(c, l) ==
    LET min == minAmountOut(c, l)
        l1  == [l EXCEPT !.minAmountOut = min.v]
        l2  == [l1 EXCEPT !.secondHopSendParam = secondHopSendParam(c, l, min.v),
                          !.lzComposeValue =
                              IF c.lzComposeValue.set THEN c.lzComposeValue.v ELSE <<>>]
    IN  CASE c.script = "s11" -> Ok(l, "decimals")
          [] c.script = "s10" -> buildHop(c, l)
          [] ~min.ok          -> Thrown(l, "parseUnits")
          [] c.script = "s3"  -> Ok(l1, "allowance")
          [] c.script = "s4"  -> checkSlippage(l1)
          [] invalidAddress(c.recipientAddress) -> Thrown(l1, "address")
          [] c.script \in {"s1", "s2"} /\ ~c.lzComposeValue.set /\ c.dstEid # c.hubEid
                              -> Ok(l2, "quoteInner")
          [] OTHER            -> buildFirstHop(c, l2)

\* an approval block followed at once by the top-level transaction
afterApprovalSubmits(c, l) == Ok(l, "send")

\* after the approval block (also when its catch swallowed an error)
afterApproval(c, l) ==
    CASE c.script \in {"s1", "s7", "s7b"} -> Ok(l, "quoteSend")
      [] c.script \in {"s5", "s9"}        -> buildHop(c, l)
      [] c.script = "s3"                  -> checkSlippage(l)
      [] c.script \in {"s10", "s11"}      -> Ok(l, "send")

\* a call of the approval block rejects: swallowed by the catch of scripts
\* 1, 5 and 7, fatal elsewhere
approvalThrows(c, l, err) ==
    IF TryApproval(c.script) THEN afterApproval(c, l) ELSE Thrown(l, err)

(***************************************************************************)
(* Steps of main(): one action per awaited call.                           *)
(***************************************************************************)
\* a validation that lets every source chain through
rejectsNothing(c) == FALSE

\* scripts 1 and 2: if (CONFIG.srcChain === CONFIG.hubChain) throw
rejectsSourceHub(c) == c.script \in {"s1", "s2"} /\ c.srcEid = c.hubEid

\* "Validate configuration": the comparisons with the placeholder strings
\* (scripts 9 and 10 make none, script 11 looks at the private key only)
placeholderLeft(c) ==
    CASE c.script \in {"s9", "s10"} -> FALSE
      [] c.script = "s11" -> c.privateKey = "YOUR_PRIVATE_KEY_HERE"
      [] OTHER ->
            \/ c.privateKey = "YOUR_PRIVATE_KEY_HERE"
            \/ c.recipientAddress = "0xYourRecipientAddressHere"
            \/ c.contract = (IF c.script = "s7b"
                             THEN "0xYourOVaultComposerAddress"
                             ELSE shippedContract(c.script))

\* the error "Validate configuration" throws, "" when it passes
validationError(c) ==
    IF placeholderLeft(c) THEN "placeholder"
    ELSE IF rejectsSourceHub(c) THEN "config"
    ELSE ""

\* the validation throws: a placeholder is left, or scripts 1 and 2 are
\* given "Source chain cannot be hub chain"
ValidateReject ==
    /\ At("start")
    /\ validationError(cfg) # ""
    /\ Throw(validationError(cfg))
    /\ UNCHANGED <<cfg, decimals, allowance, txs, log>>

\* the validation passes; main() runs up to its first await
Start ==
    /\ At("start")
    /\ validationError(cfg) = ""
    /\ Go(CASE cfg.privateKey # PrivateKey ->
                 \* new ethers.Wallet(CONFIG.privateKey, provider) throws
                 Thrown(loc, "privateKey")
            [] cfg.script = "s5"  -> Ok(loc, "token")
            [] cfg.script = "s11" ->
                 \* parseUnits(CONFIG.transaction.usdcAmount, 6)
                 LET amt == parseUnits(cfg.amount, 6)
                 IN  IF amt.ok
                     THEN Ok([loc EXCEPT !.inDecimals = 6,
                                         !.inputAmountUnits = amt.v], "preview")
                     ELSE Thrown(loc, "parseUnits")
            [] OTHER -> Ok(loc, "decimals"))
    /\ UNCHANGED <<cfg, decimals, allowance, txs, log>>

\* vault.asset(), assetToken.decimals(), shareToken.decimals()
ReadDecimals ==
    /\ At("decimals")
    /\ \/ /\ Go(IF cfg.script = "s11"
                THEN afterDecimals11(cfg, [loc EXCEPT !.outDecimals = decimals.output])
                ELSE afterDecimals(cfg, [loc EXCEPT !.inDecimals = decimals.input,
                                                    !.outDecimals = decimals.output]))
          /\ log' = Append(log, Call("decimals", TRUE))
       \/ /\ Throw("decimals")
          /\ log' = Append(log, Call("decimals", FALSE))
    /\ UNCHANGED <<cfg, decimals, allowance, txs>>

\* a main() that does not look at isNativeToken
afterTokenAsErc20(c, l) ==
    IF c.script = "s5" THEN Ok(l, "decimals") ELSE Ok(l, "approvalRequired")

\* after token(): "if (!isNativeToken) { ... approval ... }"; script 5
\* also takes 18 decimals for a native asset
afterToken(c, l) ==
    CASE c.script # "s5" ->
            Ok(l, IF l.isNativeToken THEN "quoteSend" ELSE "approvalRequired")
      [] c.script = "s5" /\ ~l.isNativeToken -> Ok(l, "decimals")
      [] c.script = "s5" /\ l.isNativeToken ->
            \* decimals = 18; the approval block is skipped
            LET amt == parseUnits(c.amount, 18)
                l2  == [l EXCEPT !.inDecimals = 18,
                                 !.outDecimals = 18,
                                 !.inputAmountUnits = amt.v]
            IN  buildHop(c, l2)

\* oft.token(): the zero address for a native asset
ReadToken ==
    /\ At("token")
    /\ \/ /\ \E native \in BOOLEAN :
               Go(afterToken(cfg, [loc EXCEPT !.isNativeToken = native]))
          /\ log' = Append(log, Call("token", TRUE))
       \/ /\ Throw("token")
          /\ log' = Append(log, Call("token", FALSE))
    /\ UNCHANGED <<cfg, decimals, allowance, txs>>

\* if (balance.lt(amount)) throw new Error('Insufficient balance')
afterBalance(c, l) ==
    IF BNlt(l.balance, l.inputAmountUnits)
    THEN Thrown(l, "balance")
    ELSE Ok(l, IF c.script = "s9" THEN "allowance" ELSE "preview")

\* balanceOf(wallet.address) and the "Insufficient balance" check
CheckBalance ==
    /\ At("balance")
    /\ \/ /\ \E balance \in {<<>>, loc.inputAmountUnits} :
               Go(afterBalance(cfg, [loc EXCEPT !.balance = balance]))
          /\ log' = Append(log, Call("balanceOf", TRUE))
       \/ /\ Throw("balanceOf")
          /\ log' = Append(log, Call("balanceOf", FALSE))
    /\ UNCHANGED <<cfg, decimals, allowance, txs>>

\* vault.previewDeposit / previewRedeem; scripts 1-4, 7, 8 catch a failure
\* and use the input amount 1:1
PreviewConversion ==
    /\ At("preview")
    /\ \/ /\ \E out \in Previews(loc.inputAmountUnits) :
               Go(afterPreview(cfg, [loc EXCEPT !.expectedOutputAmount = out,
                                                !.previewed = TRUE]))
          /\ log' = Append(log, Call("preview", TRUE))
       \/ /\ Go(IF cfg.script \in {"s10", "s11"}
                THEN Thrown(loc, "preview")
                ELSE afterPreview(cfg, [loc EXCEPT !.expectedOutputAmount =
                                                       loc.inputAmountUnits]))
          /\ log' = Append(log, Call("preview", FALSE))
    /\ UNCHANGED <<cfg, decimals, allowance, txs>>

\* quoteSend(secondHopSendParam, false) on the hub's OFT
QuoteSecondHop ==
    /\ At("quoteInner")
    /\ \/ /\ \E fee \in Quotes :
               Go(buildFirstHop(cfg,
                    [loc EXCEPT !.innerQuote = "ok",
                                !.quoteFee = fee,
                                !.lzComposeValue =
                                    IF cfg.script = "s11"
                                    THEN BNdiv(BNmul(fee, 120), 100)
                                    ELSE fee]))
          /\ log' = Append(log, Call("quoteInner", TRUE))
       \/ /\ Go(IF cfg.script = "s11"
                THEN Thrown(loc, "quoteInner")
                ELSE buildFirstHop(cfg,
                        [loc EXCEPT !.innerQuote = "failed",
                                    !.lzComposeValue = DefaultLzComposeValue]))
          /\ log' = Append(log, Call("quoteInner", FALSE))
    /\ UNCHANGED <<cfg, decimals, allowance, txs>>

\* srcOFT.approvalRequired(), inside the try block
ProbeApprovalRequired ==
    /\ At("approvalRequired")
    /\ \/ /\ \E required \in BOOLEAN :
               Go(IF required THEN Ok(loc, "allowance") ELSE afterApproval(cfg, loc))
          /\ log' = Append(log, Call("approvalRequired", TRUE))
       \/ /\ Go(approvalThrows(cfg, loc, "approvalRequired"))
          /\ log' = Append(log, Call("approvalRequired", FALSE))
    /\ UNCHANGED <<cfg, decimals, allowance, txs>>

\* an approval step that approves whatever the allowance is
alwaysApprove(currentAllowance, amount) == TRUE

\* if (currentAllowance.lt(inputAmountUnits)) { approve ... }
needsApprove(currentAllowance, amount) == BNlt(currentAllowance, amount)

\* erc20.allowance(wallet, spender) and the currentAllowance.lt(amount) test
ReadAllowance ==
    /\ At("allowance")
    /\ \/ /\ Go(IF needsApprove(allowance, loc.inputAmountUnits)
                THEN Ok(loc, "approve") ELSE afterApproval(cfg, loc))
          /\ log' = Append(log, Call("allowance", TRUE))
       \/ /\ Go(approvalThrows(cfg, loc, "allowance"))
          /\ log' = Append(log, Call("allowance", FALSE))
    /\ UNCHANGED <<cfg, decimals, allowance, txs>>

\* the amount approved: the transfer amount, MaxUint256 in script 11
approveAmount(c, l) == IF c.script = "s11" THEN MaxUint256 ELSE l.inputAmountUnits

\* erc20.approve(spender, amount)
SubmitApprove ==
    /\ At("approve")
    /\ \/ /\ Go(Ok(loc, "approveWait"))
          /\ txs' = Append(txs, [kind |-> "approve",
                                 amount |-> approveAmount(cfg, loc)])
          /\ log' = Append(log, Call("approve", TRUE))
       \/ /\ Go(approvalThrows(cfg, loc, "approve"))
          /\ txs' = txs
          /\ log' = Append(log, Call("approve", FALSE))
    /\ UNCHANGED <<cfg, decimals, allowance>>

\* approveTx.wait()
AwaitApprove ==
    /\ At("approveWait")
    /\ \/ /\ Go(afterApproval(cfg, loc))
          /\ allowance' = approveAmount(cfg, loc)
          /\ log' = Append(log, Call("approveWait", TRUE))
       \/ /\ Go(approvalThrows(cfg, loc, "approveWait"))
          /\ allowance' = allowance
          /\ log' = Append(log, Call("approveWait", FALSE))
    /\ UNCHANGED <<cfg, decimals, txs>>

\* a transaction value that leaves the native amount out
txValueFeeOnly(c, l, nativeFee) == nativeFee

\* "Send the transaction": msgFee.nativeFee, plus the amount for a native asset
txValueOf(c, l, nativeFee) ==
    IF c.script \in {"s1", "s5", "s7", "s7b"} /\ l.isNativeToken
    THEN BNadd(nativeFee, l.inputAmountUnits)
    ELSE nativeFee

\* an outer quote whose failure is absorbed with the default fee
outerQuoteFallsBack(c, l) ==
    Ok([l EXCEPT !.msgFee = [nativeFee |-> DefaultLzComposeValue, lzTokenFee |-> <<>>],
                 !.txValue = txValueOf(c, l, DefaultLzComposeValue)],
       IF c.script \in {"s10", "s11"} THEN "allowance" ELSE "send")

\* the awaited quoteSend is in no try block (the catch of the mainnet
\* variant of script 7 rethrows): main() rejects
outerQuoteFails(c, l) == Thrown(l, "quoteSend")

\* quoteSend(sendParam, false) of the hop about to be submitted
QuoteSend ==
    /\ At("quoteSend")
    /\ \/ /\ \E fee \in MessagingFees :
               Go(Ok([loc EXCEPT !.msgFee = fee,
                                 !.txValue = txValueOf(cfg, loc, fee.nativeFee),
                                 !.quotedParam = loc.sendParam],
                     IF cfg.script \in {"s10", "s11"} THEN "allowance" ELSE "send"))
          /\ log' = Append(log, Call("quoteSend", TRUE))
       \/ /\ Go(outerQuoteFails(cfg, loc))
          /\ log' = Append(log, Call("quoteSend", FALSE))
    /\ UNCHANGED <<cfg, decimals, allowance, txs>>

\* a submission that sends the whole amount as the minimum, whatever was
\* quoted
topLevelTxRebuilt(c, l) ==
    [kind |-> "send",
     sendParam |-> [l.sendParam EXCEPT !.minAmountLD = l.sendParam.amountLD],
     fee |-> l.msgFee, refundAddress |-> Wallet, value |-> l.txValue]

\* the top-level transaction of the script
topLevelTx(c, l) ==
    CASE c.script = "s3" ->
            [kind |-> "deposit", amount |-> l.inputAmountUnits,
             receiver |-> c.recipientAddress]
      [] c.script = "s4" ->
            [kind |-> "redeem", amount |-> l.inputAmountUnits,
             receiver |-> c.recipientAddress, owner |-> Wallet]
      [] c.script = "s10" ->
            [kind |-> "depositAndSend", amount |-> l.inputAmountUnits,
             sendParam |-> l.sendParam, refundAddress |-> Wallet,
             value |-> l.msgFee.nativeFee]
      [] OTHER ->
            [kind |-> "send", sendParam |-> l.sendParam,
             fee |-> IF c.script = "s11"
                     THEN [nativeFee |-> l.msgFee.nativeFee, lzTokenFee |-> <<>>]
                     ELSE l.msgFee,
             refundAddress |-> Wallet, value |-> l.txValue]

\* a submission that reports nothing before the confirmation is awaited
afterSendSilent(c, l) == Ok(l, "wait")

\* console.log(`Transaction hash: ${tx.hash}`) between send and tx.wait()
afterSend(c, l) == Ok([l EXCEPT !.out = Append(@, "hash")], "wait")

\* console.log of the confirmation and of the success banner after tx.wait()
afterReceipt(l) == [l EXCEPT !.out = Append(@, "success")]

\* srcOFT.send / vault.deposit / vault.redeem / composer.depositAndSend
SubmitTx ==
    /\ At("send")
    /\ \/ /\ Go(afterSend(cfg, loc))
          /\ txs' = Append(txs, topLevelTx(cfg, loc))
          /\ log' = Append(log, Call("send", TRUE))
       \/ /\ Throw("send")
          /\ txs' = txs
          /\ log' = Append(log, Call("send", FALSE))
    /\ UNCHANGED <<cfg, decimals, allowance>>

\* tx.wait(), then main() resolves and the script exits with 0
AwaitReceipt ==
    /\ At("wait")
    /\ \/ /\ loc' = afterReceipt(loc)
          /\ pc' = "exit"
          /\ status' = "ok"
          /\ log' = Append(log, Call("wait", TRUE))
       \/ /\ Throw("wait")
          /\ log' = Append(log, Call("wait", FALSE))
    /\ UNCHANGED <<cfg, decimals, allowance, txs>>

\* runs of the script on the same chain state
MaxRuns == 2

\* the script is run again after a run that confirmed its approval and
\* failed before submitting the top-level transaction: the allowance granted
\* is still there, the process starts afresh
RunAgain ==
    /\ status = "failed"
    /\ pc = "exit"
    /\ loc.run < MaxRuns
    /\ \E i \in 1..Len(log) : log[i] = Call("approveWait", TRUE)
    /\ \A i \in 1..Len(txs) : txs[i].kind = "approve"
    /\ pc' = "start"
    /\ status' = "running"
    /\ loc' = [InitLoc EXCEPT !.run = loc.run + 1]
    /\ txs' = <<>>
    /\ log' = <<>>
    /\ UNCHANGED <<cfg, decimals, allowance>>

Next ==
    \/ RunAgain
    \/ ValidateReject
    \/ Start
    \/ ReadDecimals
    \/ ReadToken
    \/ CheckBalance
    \/ PreviewConversion
    \/ QuoteSecondHop
    \/ ProbeApprovalRequired
    \/ ReadAllowance
    \/ SubmitApprove
    \/ AwaitApprove
    \/ QuoteSend
    \/ SubmitTx
    \/ AwaitReceipt

Spec == Init /\ [][Next]_vars

(***************************************************************************)
(* The slippage calculation on its own: calculateMinAmount applied to an   *)
(* expected amount and a basis-point value.                                *)
(***************************************************************************)
\* expected amounts 0, 199, 398, ... MaxUnits * 199 smallest units
MaxUnits == 9

ExpectedAmounts ==
    { BNfrom(199 * k) : k \in 0..MaxUnits }
        \cup { <<0, 100>>, <<0, 0, 0, 0, 100>>, MaxUint256 }

\* basis points inside [0, 10000] and outside
BpsInputs == {0, 1, 50, 9999, 10000} \cup {0 - 1, 10001, 20000}

SlippageInit ==
    /\ cfg \in [expected : ExpectedAmounts, slippageBps : BpsInputs]
    /\ pc = "slippage"
    /\ status = "running"
    /\ loc = [result |-> <<>>]
    /\ decimals = [input |-> 0, output |-> 0]
    /\ allowance = <<>>
    /\ txs = <<>>
    /\ log = <<>>

\* const min = calculateMinAmount(expected, slippageBps): it returns for
\* every input, there is no throw in it
Calculate ==
    /\ pc = "slippage"
    /\ status = "running"
    /\ loc' = [result |-> calculateMinAmount(cfg.expected, cfg.slippageBps)]
    /\ pc' = "calculated"
    /\ status' = "ok"
    /\ UNCHANGED <<cfg, decimals, allowance, txs, log>>

SlippageNext == Calculate

SlippageSpec == SlippageInit /\ [][SlippageNext]_vars

(***************************************************************************)
(* Two runs of script 3 at once, by the same wallet for the same token and *)
(* vault: each process has its own locals, the allowance is on the chain.  *)
(* Each run is taken from its allowance read on.                           *)
(***************************************************************************)
Attempts == {1, 2}

\* largest amount, in smallest units, of a concurrent run
MaxConcurrentAmount == 2

ConcurrentAmounts == { BNfrom(n) : n \in 1..MaxConcurrentAmount }

ConcurrentInit ==
    /\ cfg \in [Attempts -> [script : {"s3"}, inputAmountUnits : ConcurrentAmounts]]
    /\ pc = [p \in Attempts |-> "allowance"]
    /\ status = [p \in Attempts |-> "running"]
    /\ loc = [p \in Attempts |-> [currentAllowance |-> <<>>, err |-> ""]]
    /\ decimals = [input |-> 0, output |-> 0]
    /\ allowance \in { BNfrom(n) : n \in 0..MaxConcurrentAmount }
    /\ txs = <<>>
    /\ log = <<>>

CallOf(p, name, ok) == [attempt |-> p, call |-> name, ok |-> ok]

AtOf(p, label) == status[p] = "running" /\ pc[p] = label

\* the awaited call of run p rejects: its main() rejects, exit(1)
ThrowOf(p, name) ==
    /\ pc' = [pc EXCEPT ![p] = "exit"]
    /\ status' = [status EXCEPT ![p] = "failed"]
    /\ loc' = [loc EXCEPT ![p].err = name]
    /\ log' = Append(log, CallOf(p, name, FALSE))

\* const currentAllowance = await assetToken.allowance(wallet, vault)
ConcurrentReadAllowance(p) ==
    /\ AtOf(p, "allowance")
    /\ \/ /\ pc' = [pc EXCEPT ![p] =
                       IF needsApprove(allowance, cfg[p].inputAmountUnits)
                       THEN "approve" ELSE "send"]
          /\ loc' = [loc EXCEPT ![p].currentAllowance = allowance]
          /\ log' = Append(log, CallOf(p, "allowance", TRUE))
          /\ status' = status
       \/ ThrowOf(p, "allowance")
    /\ UNCHANGED <<cfg, decimals, allowance, txs>>

\* const approveTx = await assetToken.approve(vault, inputAmountUnits)
ConcurrentSubmitApprove(p) ==
    /\ AtOf(p, "approve")
    /\ \/ /\ pc' = [pc EXCEPT ![p] = "approveWait"]
          /\ txs' = Append(txs, [attempt |-> p, kind |-> "approve",
                                 amount |-> cfg[p].inputAmountUnits])
          /\ log' = Append(log, CallOf(p, "approve", TRUE))
          /\ UNCHANGED <<status, loc>>
       \/ /\ ThrowOf(p, "approve")
          /\ txs' = txs
    /\ UNCHANGED <<cfg, decimals, allowance>>

\* await approveTx.wait(): the approve is mined, the allowance is set to
\* the amount approved
ConcurrentAwaitApprove(p) ==
    /\ AtOf(p, "approveWait")
    /\ \/ /\ pc' = [pc EXCEPT ![p] = "send"]
          /\ allowance' = cfg[p].inputAmountUnits
          /\ log' = Append(log, CallOf(p, "approveWait", TRUE))
          /\ UNCHANGED <<status, loc>>
       \/ /\ ThrowOf(p, "approveWait")
          /\ allowance' = allowance
    /\ UNCHANGED <<cfg, decimals, txs>>

\* const tx = await vault.deposit(inputAmountUnits, recipient)
ConcurrentSubmitTx(p) ==
    /\ AtOf(p, "send")
    /\ \/ /\ pc' = [pc EXCEPT ![p] = "wait"]
          /\ txs' = Append(txs, [attempt |-> p, kind |-> "deposit",
                                 amount |-> cfg[p].inputAmountUnits,
                                 allowance |-> allowance])
          /\ log' = Append(log, CallOf(p, "send", TRUE))
          /\ UNCHANGED <<status, loc>>
       \/ /\ ThrowOf(p, "send")
          /\ txs' = txs
    /\ UNCHANGED <<cfg, decimals, allowance>>

\* const receipt = await tx.wait()
ConcurrentAwaitReceipt(p) ==
    /\ AtOf(p, "wait")
    /\ \/ /\ pc' = [pc EXCEPT ![p] = "exit"]
          /\ status' = [status EXCEPT ![p] = "ok"]
          /\ log' = Append(log, CallOf(p, "wait", TRUE))
          /\ loc' = loc
       \/ ThrowOf(p, "wait")
    /\ UNCHANGED <<cfg, decimals, allowance, txs>>

ConcurrentNext ==
    \E p \in Attempts :
        \/ ConcurrentReadAllowance(p)
        \/ ConcurrentSubmitApprove(p)
        \/ ConcurrentAwaitApprove(p)
        \/ ConcurrentSubmitTx(p)
        \/ ConcurrentAwaitReceipt(p)

ConcurrentSpec == ConcurrentInit /\ [][ConcurrentNext]_vars

(***************************************************************************)
(* Vocabulary of the properties.                                           *)
(***************************************************************************)
Failed(name)    == \E i \in 1..Len(log) : log[i] = Call(name, FALSE)
Succeeded(name) == \E i \in 1..Len(log) : log[i] = Call(name, TRUE)

\* a send / deposit / redeem / depositAndSend transaction was submitted
TopLevelSubmitted == \E i \in 1..Len(txs) : txs[i].kind # "approve"

\* the SendParam of the hop to submit has been built
HopBuilt == loc.sendParam # NoHop
\* the SendParam nested in the compose message has been built
SecondHopBuilt == loc.secondHopSendParam # NoHop

\* the Hop Instructions built so far
BuiltHops ==
    (IF HopBuilt THEN {loc.sendParam} ELSE {})
        \cup (IF SecondHopBuilt THEN {loc.secondHopSendParam} ELSE {})

ToComposer(h) == h.to = addressToBytes32(Composer)

\* hops of the route: the submitted hop, and the nested hop when it leaves
\* the hub
HopCount ==
    (IF HopBuilt THEN 1 ELSE 0)
        + (IF SecondHopBuilt /\ loc.secondHopSendParam.dstEid # cfg.hubEid
           THEN 1 ELSE 0)

\* hops of the route by the planning rules
RuleHops(c) ==
    IF c.srcEid = c.hubEid /\ c.dstEid = c.hubEid THEN 0
    ELSE IF c.srcEid # c.hubEid /\ c.dstEid # c.hubEid THEN 2
    ELSE 1

(***************************************************************************)
(* Properties.                                                             *)
(***************************************************************************)
\* C1: approval failures are fatal: once reading the allowance, submitting
\* the approve transaction or waiting for its confirmation has failed, the
\* run has failed and no top-level transaction is ever submitted.
C1_ApprovalFailureFatal ==
    (Failed("allowance") \/ Failed("approve") \/ Failed("approveWait"))
        => (status = "failed" /\ ~TopLevelSubmitted)

\* C2: a failure of the quoteSend of the hop about to be submitted is fatal:
\* no fee is substituted, the run has failed, and no top-level transaction
\* is submitted.
C2_OuterQuoteFailureFatal ==
    Failed("quoteSend")
        => (status = "failed" /\ loc.msgFee = NoFee /\ ~TopLevelSubmitted)

\* C2 happens: the hop was built and its quoteSend failed
C2_Witness == HopBuilt /\ Failed("quoteSend")

\* C3: in every two-hop flow a failed second-hop quote is absorbed: the
\* inner-hop value is 25000000000000000 wei and the run is not aborted by
\* the quote's failure.
C3_InnerQuoteFailureAbsorbed ==
    Failed("quoteInner")
        => (loc.lzComposeValue = DefaultLzComposeValue /\ loc.err # "quoteInner")

\* C4: in every two-hop flow, after a successful second-hop quote the value
\* in the compose message and in the first hop's compose option is
\* floor(quotedNativeFee * 120 / 100).
C4_InnerValueBuffered ==
    (loc.innerQuote = "ok" /\ HopBuilt)
        => LET buffered == BNdiv(BNmul(loc.quoteFee, 120), 100)
           IN  /\ loc.sendParam.composeMsg.msgValue = buffered
               /\ loc.sendParam.extraOptions.value = buffered

\* C5: every hop built, submitted or nested, has minAmountLD <= amountLD.
C5_MinAtMostAmount ==
    \A h \in BuiltHops : BNlte(h.minAmountLD, h.amountLD)

\* C6 as stated: a built hop carries a compose message only when it goes to
\* the composer and the destination is not the hub; every other hop carries
\* '0x'.
C6_ComposeOnlyWithDownstreamHop ==
    \A h \in BuiltHops :
        IF ToComposer(h) /\ cfg.dstEid # cfg.hubEid
        THEN TRUE
        ELSE h.composeMsg = Bytes0x

\* C6 amended: a built hop carries a compose message exactly when it goes
\* to the composer, also when the destination is the hub; every other hop
\* carries '0x'.
C6_ComposeIffToComposer ==
    \A h \in BuiltHops :
        IF ToComposer(h)
        THEN h.composeMsg.hex = "abi"
        ELSE h.composeMsg = Bytes0x

\* C6 happens: a hop to the composer is built for a destination that is
\* the hub
C6_Witness ==
    /\ HopBuilt
    /\ ToComposer(loc.sendParam)
    /\ cfg.dstEid = cfg.hubEid
    /\ cfg.srcEid # cfg.hubEid

\* the general case of route planning: neither end is the hub
TwoHopCase == cfg.srcEid # cfg.hubEid /\ cfg.dstEid # cfg.hubEid

\* the submitted hop goes to the hub's composer and its compose message
\* names the configured destination and the user's recipient
FirstHopToComposer ==
    /\ loc.sendParam.dstEid = cfg.hubEid
    /\ ToComposer(loc.sendParam)
    /\ loc.sendParam.composeMsg.hex = "abi"
    /\ loc.sendParam.composeMsg.tuple[1] = cfg.dstEid
    /\ loc.sendParam.composeMsg.tuple[2] = addressToBytes32(cfg.recipientAddress)

\* C7 as stated: with source # hub and destination # hub the submitted hop
\* goes to the composer on the hub, and the hop 2 of its compose message
\* has the configured destination, the user's recipient, the previewed
\* output as amount and that output less 50 bps as minimum.
C7_SecondHopPreviewLessSlippage ==
    (TwoHopCase /\ HopBuilt) =>
        /\ FirstHopToComposer
        /\ loc.previewed
        /\ loc.sendParam.composeMsg.tuple[3] = loc.expectedOutputAmount
        /\ loc.sendParam.composeMsg.tuple[4] =
               calculateMinAmount(loc.expectedOutputAmount, SlippageBps)

\* C7 amended: with source # hub and destination # hub the submitted hop
\* goes to the composer on the hub, and the hop 2 of its compose message
\* has the configured destination and the user's recipient; its amount is
\* the previewed output, or the input amount 1:1 when the preview failed;
\* its minimum is the configured minAmount in output units when one is
\* configured, and the amount less 50 bps otherwise.
C7_SecondHopOfComposeMsg ==
    (TwoHopCase /\ HopBuilt) =>
        /\ FirstHopToComposer
        /\ loc.sendParam.composeMsg.tuple[3] =
               (IF loc.previewed THEN loc.expectedOutputAmount
                ELSE loc.inputAmountUnits)
        /\ (Succeeded("preview") <=> loc.previewed)
        /\ loc.sendParam.composeMsg.tuple[4] =
               (IF cfg.minAmount.set
                THEN parseUnits(cfg.minAmount.v, loc.outDecimals).v
                ELSE calculateMinAmount(loc.sendParam.composeMsg.tuple[3],
                                        SlippageBps))

\* C7 happens: a two-hop route is built from a preview that returned less
\* than the input amount
C7_Witness ==
    /\ TwoHopCase
    /\ HopBuilt
    /\ loc.previewed
    /\ BNlt(loc.expectedOutputAmount, loc.inputAmountUnits)

\* C8: with source # hub, destination = hub and a conversion, one hop is
\* built, to the composer on the hub; the nested instruction stays on the
\* hub, no second-hop quote is requested, and the value reserved for a
\* second hop is 0, also when an lzComposeValue is configured.
C8_SpokeToHubOneHop ==
    (cfg.srcEid # cfg.hubEid /\ cfg.dstEid = cfg.hubEid
        /\ Conversion(cfg.script) # "none")
    => /\ ~Succeeded("quoteInner") /\ ~Failed("quoteInner")
       /\ HopBuilt =>
            /\ loc.sendParam.dstEid = cfg.hubEid
            /\ ToComposer(loc.sendParam)
            /\ HopCount = 1
            /\ loc.lzComposeValue = <<>>
            /\ loc.sendParam.composeMsg.msgValue = <<>>
            /\ loc.sendParam.extraOptions.value = <<>>

\* C8 happens: the hop is built for a hub destination while an
\* lzComposeValue is configured
C8_Witness ==
    /\ cfg.srcEid # cfg.hubEid
    /\ cfg.dstEid = cfg.hubEid
    /\ cfg.lzComposeValue.set
    /\ HopBuilt

\* C9: with source = hub and destination # hub the route is one hop to
\* the destination with the empty compose message '0x', addressed to the
\* user's recipient and not to the composer.
C9_HubToSpokeOneHop ==
    (cfg.srcEid = cfg.hubEid /\ cfg.dstEid # cfg.hubEid /\ HopBuilt)
    => /\ HopCount = 1
       /\ ~SecondHopBuilt
       /\ loc.sendParam.dstEid = cfg.dstEid
       /\ loc.sendParam.composeMsg = Bytes0x
       /\ loc.sendParam.to = addressToBytes32(cfg.recipientAddress)
       /\ ~ToComposer(loc.sendParam)

\* C9 happens: a hub-to-spoke hop has been submitted
C9_Witness ==
    /\ cfg.srcEid = cfg.hubEid
    /\ cfg.dstEid # cfg.hubEid
    /\ HopBuilt
    /\ TopLevelSubmitted

\* a cross-chain script is asked for a conversion with source = hub =
\* destination
ExcludedRequest ==
    /\ Conversion(cfg.script) # "none"
    /\ cfg.script \notin {"s3", "s4"}
    /\ cfg.srcEid = cfg.hubEid
    /\ cfg.dstEid = cfg.hubEid

\* C10: route planning is total: save for a conversion with source = hub =
\* destination, no request is rejected by the validation, and the route
\* built has the 0, 1 or 2 hops of the planning rules.
C10_RoutePlanningTotal ==
    ~ExcludedRequest =>
        /\ loc.err # "config"
        /\ (HopBuilt \/ TopLevelSubmitted) => HopCount = RuleHops(cfg)

\* CONFIG still holds a value it ships for the private key, the recipient
\* address or the contract address
ShippedPlaceholderLeft ==
    \/ cfg.privateKey = shippedPrivateKey(cfg.script)
    \/ cfg.recipientAddress = shippedRecipient(cfg.script)
    \/ (cfg.contract = shippedContract(cfg.script) /\ cfg.contract # Contract)

\* C11: with a shipped placeholder left in CONFIG, or a conversion asked
\* for with source = hub = destination, the run fails in the validation:
\* no network call is made and no transaction is submitted.
C11_ConfigErrorBeforeNetwork ==
    (ShippedPlaceholderLeft \/ ExcludedRequest)
        => /\ log = <<>>
           /\ txs = <<>>
           /\ pc # "start" => status = "failed"

\* the slippage calculation has been applied to in-range basis points
InRangeCalculated == pc = "calculated" /\ cfg.slippageBps \in 0..10000

\* C12: for basis points b in [0, 10000] and an expected amount e >= 0 the
\* calculation returns r = floor(e * (10000 - b) / 10000), that is
\* r * 10000 <= e * (10000 - b) < (r + 1) * 10000; r <= e; b = 0 gives e;
\* b = 10000 gives 0; e = 0 gives 0.
C12_SlippageIsFloor ==
    InRangeCalculated =>
        LET e == cfg.expected
            b == cfg.slippageBps
            r == loc.result
        IN  /\ BNlte(BNmul(r, 10000), BNmul(e, 10000 - b))
            /\ BNlt(BNmul(e, 10000 - b), BNmul(BNadd(r, <<1>>), 10000))
            /\ BNlte(r, e)
            /\ b = 0 => r = e
            /\ b = 10000 => r = <<>>
            /\ e = <<>> => r = <<>>

\* C12 happens: 50 bps of an amount that 10000 does not divide evenly
C12_Witness ==
    /\ InRangeCalculated
    /\ cfg.slippageBps = 50
    /\ cfg.expected = <<199>>
    /\ loc.result = <<198>>

\* C13: a basis-point value below 0 or above 10000 is rejected: the
\* calculation fails instead of returning a minimum.
C13_RejectsOutOfRangeBps ==
    (pc = "calculated" /\ cfg.slippageBps \notin 0..10000)
        => status = "failed"

\* the first hop's minimum comes from the human-readable amount times
\* (1 - 50 / 10000) in scripts 1, 2, 7 and 8
FloatMinScripts == ComposeScripts \ {"s11"}

\* C14: with an explicit minAmount the minimum of every hop built (and of
\* the local vault call) is that value parsed into smallest units, with no
\* slippage taken off; without one the minimum is the amount less 50 bps.
C14_ExplicitMinVerbatim ==
    /\ (HopBuilt /\ cfg.minAmount.set) =>
           loc.sendParam.minAmountLD = parseUnits(cfg.minAmount.v, loc.inDecimals).v
    /\ ((SecondHopBuilt \/ TopLevelSubmitted) /\ cfg.minAmount.set
            /\ cfg.script \notin {"s5", "s6"}) =>
           loc.minAmountOut = parseUnits(cfg.minAmount.v, loc.outDecimals).v
    /\ SecondHopBuilt => loc.secondHopSendParam.minAmountLD = loc.minAmountOut
    /\ (SecondHopBuilt /\ ~cfg.minAmount.set) =>
           loc.secondHopSendParam.minAmountLD =
               calculateMinAmount(loc.secondHopSendParam.amountLD, SlippageBps)
    /\ (HopBuilt /\ ~cfg.minAmount.set) =>
           loc.sendParam.minAmountLD =
               (IF cfg.script \in FloatMinScripts
                THEN parseUnits(floatSlippageString(cfg.amount), loc.inDecimals).v
                ELSE calculateMinAmount(loc.sendParam.amountLD, SlippageBps))

\* C14 happens: a two-hop route with an explicit minAmount has been
\* submitted
C14_Witness ==
    /\ cfg.minAmount.set
    /\ SecondHopBuilt
    /\ HopBuilt
    /\ TopLevelSubmitted

\* C15: without an explicit minAmount the first hop's minimum is computed
\* on the smallest-unit amount: building it never fails and it is
\* floor(amountLD * 9950 / 10000), for every amount and decimals.
C15_FirstHopMinOnUnits ==
    (cfg.script \in ComposeScripts /\ ~cfg.minAmount.set) =>
        /\ ~(SecondHopBuilt /\ loc.err = "parseUnits")
        /\ HopBuilt =>
               loc.sendParam.minAmountLD =
                   BNdiv(BNmul(loc.sendParam.amountLD, 9950), 10000)

ApproveAttempted == Succeeded("approve") \/ Failed("approve")

ApproveTxs == { i \in 1..Len(txs) : txs[i].kind = "approve" }

\* C16: the approval step is idempotent: approve is submitted exactly when
\* the allowance read is below the amount, at most once, and a run that
\* follows a confirmed approval with nothing spent submits no approve.
C16_ApprovalIdempotent ==
    /\ (pc = "approve" \/ ApproveAttempted) =>
           /\ Succeeded("allowance")
           /\ Succeeded("approveWait") \/ BNlt(allowance, loc.inputAmountUnits)
    /\ (Succeeded("allowance") /\ pc # "approve" /\ ~ApproveAttempted) =>
           BNlte(loc.inputAmountUnits, allowance)
    /\ Cardinality(ApproveTxs) <= 1
    /\ loc.run > 1 => (pc # "approve" /\ ~ApproveAttempted /\ ApproveTxs = {})

\* C16 happens: the second run has read the allowance and gone on to
\* submit the top-level transaction
C16_Witness ==
    /\ loc.run = 2
    /\ Succeeded("allowance")
    /\ TopLevelSubmitted

\* C17: when token() is the zero address (a native asset) the approval
\* block is skipped: approvalRequired and allowance are not read and no
\* approve transaction is submitted.
C17_NativeSkipsApproval ==
    loc.isNativeToken =>
        /\ pc \notin {"approvalRequired", "allowance", "approve", "approveWait"}
        /\ ~Succeeded("approvalRequired") /\ ~Failed("approvalRequired")
        /\ ~Succeeded("allowance") /\ ~Failed("allowance")
        /\ ~ApproveAttempted
        /\ ApproveTxs = {}

\* C17 happens: a native asset has been sent
C17_Witness == loc.isNativeToken /\ TopLevelSubmitted

\* C18: the value attached to the top-level send is the native fee quoted
\* for the submitted hop, plus the amount sent exactly when the asset is
\* native.
C18_TxValueIsFeePlusNative ==
    \A i \in 1..Len(txs) :
        txs[i].kind \in {"send", "depositAndSend"} =>
            /\ Succeeded("quoteSend")
            /\ loc.msgFee.nativeFee \in Quotes
            /\ txs[i].value =
                   (IF loc.isNativeToken
                    THEN BNadd(loc.msgFee.nativeFee, loc.inputAmountUnits)
                    ELSE loc.msgFee.nativeFee)

\* C18 happens: a non-zero amount of a native asset has been sent
C18_Witness ==
    /\ loc.isNativeToken
    /\ loc.inputAmountUnits # <<>>
    /\ \E i \in 1..Len(txs) : txs[i].kind = "send"

\* a step whose failure ends the attempt has failed
FatalStepFailed ==
    \/ status = "failed"
    \/ Failed("allowance") \/ Failed("approve") \/ Failed("approveWait")
    \/ Failed("quoteSend") \/ Failed("send") \/ Failed("wait")

\* C19: one attempt submits at most one top-level transaction and at most
\* one approve transaction, and once a step has failed it submits no
\* further transaction.
C19_AtMostOneTxNoRetry ==
    [][ /\ Cardinality({ i \in 1..Len(txs') : txs'[i].kind = "approve" }) <= 1
        /\ Cardinality({ i \in 1..Len(txs') : txs'[i].kind # "approve" }) <= 1
        /\ FatalStepFailed => Len(txs') <= Len(txs) ]_vars

\* call a was made, and returned or failed, before call b was made
Before(a, b) ==
    \E i, j \in 1..Len(log) : i < j /\ log[i].call = a /\ log[j].call = b

Called(name) == Succeeded(name) \/ Failed(name)

\* scripts that quote the outer hop before the approval block
QuoteFirstScripts == {"s10", "s11"}

\* scripts 3 and 4 call the vault on the hub chain: no hop, no quote
NoQuoteScripts == {"s3", "s4"}

C21_QuoteImmediatelyBeforeSend ==
    cfg.script \notin NoQuoteScripts =>
        \A j \in 1..Len(log) : log[j].call = "send" =>
            \E i \in 1..(j - 1) :
                /\ log[i] = Call("quoteSend", TRUE)
                /\ \A k \in (i + 1)..(j - 1) :
                       log[k].call \notin {"approve", "approveWait"}

\* what the run has printed about its top-level transaction
Reported(item) == \E i \in 1..Len(loc.out) : loc.out[i] = item

\* C22: the transaction hash is reported once the top-level transaction is
\* submitted, before its confirmation is awaited, so it has been reported
\* whenever the confirmation fails; success is reported only after the
\* confirmation.
C22_HashBeforeConfirmation ==
    /\ Succeeded("send") => Reported("hash")
    /\ Called("wait") => Reported("hash")
    /\ Reported("hash") => TopLevelSubmitted
    /\ Reported("success") <=> Succeeded("wait")
    /\ Reported("success") => loc.out = <<"hash", "success">>

C22_Witness ==
    /\ Failed("wait")
    /\ Reported("hash")
    /\ ~Reported("success")

\* C23: a failed vault preview is not fatal: the expected output is taken to
\* be the input amount and the attempt goes on.
C23_PreviewFailureFallsBack ==
    Failed("preview") =>
        /\ loc.err # "preview"
        /\ loc.expectedOutputAmount = loc.inputAmountUnits
        /\ ~loc.previewed

\* the pre-flight check: the balance was read and covers the amount
BalanceChecked ==
    /\ Succeeded("balanceOf")
    /\ BNlte(loc.inputAmountUnits, loc.balance)

\* C24: a balance below the transfer amount ends the attempt with the
\* insufficient-balance error before any transaction: a balance read that
\* returns less than the amount fails the attempt with nothing submitted,
\* and no approve or top-level transaction is attempted unless the balance
\* was read and covers the amount.
C24_InsufficientBalanceFatal ==
    /\ (Succeeded("balanceOf") /\ BNlt(loc.balance, loc.inputAmountUnits)) =>
           /\ status = "failed"
           /\ loc.err = "balance"
           /\ txs = <<>>
    /\ (txs # <<>> \/ Called("approve") \/ Called("send")) => BalanceChecked

\* C25: an expected conversion output below the requested minimum ends the
\* attempt before the top-level transaction: the deposit, redeem or send
\* is never called with the expected output under the minimum.
C25_SlippageCheckedBeforeSubmit ==
    (Conversion(cfg.script) # "none" /\ Called("send")) =>
        BNlte(loc.minAmountOut, loc.expectedOutputAmount)

\* the other run has not made a call yet
Alone(p) == \A i \in 1..Len(log) : log[i].attempt = p

\* C26: concurrent attempts of one holder for one token and spender do not
\* affect each other: in every interleaving each attempt that reaches its
\* submission does so with an allowance of at least its own amount, as it
\* does when it runs alone.
C26_ConcurrentAttemptsIndependent ==
    \A p \in Attempts :
        AtOf(p, "send") => BNlte(cfg[p].inputAmountUnits, allowance)

\* the submitted hop carries a compose payload
ComposeBuilt == HopBuilt /\ loc.sendParam.composeMsg # Bytes0x

\* C27: wherever a compose payload is built, the native value encoded in it
\* is the native value of the first hop's compose option, for every fee the
\* inner quote returns, and building the option never fails.
C27_ComposeValueMatchesOption ==
    /\ loc.err # "options"
    /\ ComposeBuilt =>
           /\ loc.sendParam.extraOptions.type = "lzCompose"
           /\ loc.sendParam.composeMsg.msgValue = loc.sendParam.extraOptions.value

\* transactions that carry a Hop Instruction
HopTxs == { i \in 1..Len(txs) : txs[i].kind \in {"send", "depositAndSend"} }

\* C28: the Hop Instruction of the top-level submission is, field for
\* field, the one that was passed to the outer quoteSend.
C28_SentHopIsQuotedHop ==
    \A i \in HopTxs :
        /\ loc.quotedParam # NoHop
        /\ txs[i].sendParam = loc.quotedParam
        /\ loc.sendParam = loc.quotedParam

\* C28 happens: a hop with a minimum below its amount has been quoted and
\* submitted
C28_Witness ==
    /\ HopTxs # {}
    /\ Succeeded("quoteSend")
    /\ loc.quotedParam # NoHop
    /\ loc.quotedParam.minAmountLD # loc.quotedParam.amountLD

\* C29: the fee passed to send is the outer quote, unchanged in its native
\* and its lzToken component, and the refund address is the sender's own
\* wallet address.
C29_FeeIsQuoteRefundIsWallet ==
    \A i \in HopTxs :
        /\ txs[i].refundAddress = Wallet
        /\ txs[i].kind = "send" =>
               /\ Succeeded("quoteSend")
               /\ txs[i].fee.nativeFee = loc.msgFee.nativeFee
               /\ txs[i].fee.lzTokenFee = loc.msgFee.lzTokenFee

\* process.exit(0) after main() resolved, process.exit(1) after it rejected
ExitCode == IF status = "ok" THEN 0 ELSE 1

Exited == pc = "exit"

\* the awaited calls main() has made, counting the synchronous start
Steps == Len(log) + (IF pc = "start" THEN 0 ELSE 1)

\* C30: when every network call eventually returns or fails the attempt
\* terminates: every step of a run is the return or the failure of an await
\* that main() has not made before (there is no loop and no retry in it, so
\* the calls made are all different and there are finitely many), an
\* attempt that has not exited is still running, at one of those awaits,
\* and one that has exited is over. It exits with status 0 exactly when the
\* top-level transaction was submitted and confirmed, and with status 1
\* otherwise.
C30_TerminatesWithExitCode ==
    /\ [][ \/ loc'.run > loc.run
           \/ loc'.run = loc.run /\ Len(log') + (IF pc' = "start" THEN 0 ELSE 1) > Steps
       ]_vars
    /\ [](Cardinality({ log[i].call : i \in 1..Len(log) }) = Len(log))
    /\ [](status = "running" <=> ~Exited)
    /\ [](Exited => (ExitCode = 0 <=> (TopLevelSubmitted /\ Succeeded("wait"))))

C30_Witness ==
    /\ Exited
    /\ ExitCode = 1
    /\ TopLevelSubmitted
    /\ Failed("wait")
====
